---- MODULE Spec2Model ----
(***************************************************************************)
(* Model of monitor.js: the poll / diff / notify loop (checkOffers), the   *)
(* offer fetcher (getOffers), the persisted state and subscriber files,    *)
(* the broadcast (sendTelegramMessageToAll) and the /start handlers.       *)
(*                                                                         *)
(* A JavaScript string is a sequence of characters; a character is a       *)
(* one-element name ("1", "A", "Atilde", ...).  A JavaScript value is a    *)
(* record with a type tag, so that ||, truthiness, toString, includes and  *)
(* the JSON round trip are computed the way the runtime computes them.     *)
(***************************************************************************)
EXTENDS Naturals, Sequences, FiniteSets, TLC

\* ------------------------------------------------------------------------
\* Bounds of the model
\* ------------------------------------------------------------------------

\* longest docs array a response carries
MaxDocs == 2

\* number of checkOffers invocations (startup call + cron ticks) explored
MaxCycles == 2

\* the invocations of checkOffers that may be in flight together
Procs == {1, 2}

\* the chats that may send /start
Chats == {101, 102}

\* ------------------------------------------------------------------------
\* JavaScript values
\* ------------------------------------------------------------------------

Undefined == [t |-> "undefined", s |-> <<>>, n |-> 0, b |-> FALSE]

Null == [t |-> "null", s |-> <<>>, n |-> 0, b |-> FALSE]

Str(chars) == [t |-> "string", s |-> chars, n |-> 0, b |-> FALSE]

Num(k) == [t |-> "number", s |-> <<>>, n |-> k, b |-> FALSE]

Bool(x) == [t |-> "boolean", s |-> <<>>, n |-> 0, b |-> x]

\* an object, such as {}
Object == [t |-> "object", s |-> <<>>, n |-> 0, b |-> FALSE]

\* ToBoolean: undefined, null, "", 0 and false are falsy
Truthy(v) ==
    CASE v.t = "undefined" -> FALSE
      [] v.t = "null" -> FALSE
      [] v.t = "string" -> v.s # <<>>
      [] v.t = "number" -> v.n # 0
      [] v.t = "boolean" -> v.b
      [] v.t = "object" -> TRUE

\* a || b
Or(a, b) == IF Truthy(a) THEN a ELSE b

Digit(k) == <<"0", "1", "2", "3", "4", "5", "6", "7", "8", "9">>[k + 1]

RECURSIVE NumberToString(_)
NumberToString(k) ==
    IF k < 10 THEN <<Digit(k)>>
    ELSE Append(NumberToString(k \div 10), Digit(k % 10))

\* v.toString() for the values that have the method (strings, numbers, booleans)
ToStringJS(v) ==
    CASE v.t = "string" -> v.s
      [] v.t = "number" -> NumberToString(v.n)
      [] v.t = "boolean" -> IF v.b THEN <<"t", "r", "u", "e">> ELSE <<"f", "a", "l", "s", "e">>

\* Array.prototype.includes (SameValueZero: same type and same value)
includes(arr, v) == \E k \in 1..Len(arr) : arr[k] = v

\* Array.prototype.push
push(arr, v) == Append(arr, v)

\* ------------------------------------------------------------------------
\* JSON.stringify / JSON.parse and the two files
\* ------------------------------------------------------------------------

\* JSON.stringify of an array element: undefined is written as null
StringifyElement(v) == IF v.t = "undefined" THEN Null ELSE v

\* JSON.stringify of an object property: an undefined property is left out
Absent == [t |-> "absent", s |-> <<>>, n |-> 0, b |-> FALSE]

\* a falsy property left out as well
StringifyPropertyTruthyOnly(v) == IF Truthy(v) THEN v ELSE Absent

StringifyProperty(v) == IF v.t = "undefined" THEN Absent ELSE v

\* reading a property the text does not have gives undefined
ParseProperty(j) == IF j.t = "absent" THEN Undefined ELSE j

StringifyArray(arr) == [k \in 1..Len(arr) |-> StringifyElement(arr[k])]

\* JSON.stringify(state, null, 2): the text of the state file
StringifyState(st) ==
    [seen_offers |-> StringifyArray(st.seen_offers),
     firstRun |-> StringifyProperty(st.firstRun)]

\* JSON.parse of the text of the state file
ParseState(text) ==
    [seen_offers |-> text.seen_offers, firstRun |-> ParseProperty(text.firstRun)]

NoStateText == [seen_offers |-> <<>>, firstRun |-> Absent]

\* a file is missing, holds text JSON.parse rejects, or holds JSON text
MissingStateFile == [kind |-> "missing", text |-> NoStateText]

CorruptStateFile == [kind |-> "corrupt", text |-> NoStateText]

DefaultState == [seen_offers |-> <<>>, firstRun |-> Bool(TRUE)]

\* loadState: readFileSync or JSON.parse throwing gives the default state
loadState(file) ==
    IF file.kind = "json" THEN ParseState(file.text) ELSE DefaultState

\* saveState: the file content after writeFileSync (whole-file overwrite)
saveState(st) == [kind |-> "json", text |-> StringifyState(st)]

MissingUsersFile == [kind |-> "missing", text |-> <<>>]

\* loadUsers: readFileSync or JSON.parse throwing gives []
loadUsers(file) == IF file.kind = "json" THEN file.text ELSE <<>>

\* saveUsers of the checkOffers revision: the list as it is
saveUsers(list) == [kind |-> "json", text |-> StringifyArray(list)]

RECURSIVE Unique(_)
Unique(list) ==
    IF list = <<>> THEN <<>>
    ELSE LET front == Unique(SubSeq(list, 1, Len(list) - 1))
             last == list[Len(list)]
         IN IF includes(front, last) THEN front ELSE Append(front, last)

\* saveUsers of the cron-task revision: [...new Set(users)] first
saveUsersUnique(list) == [kind |-> "json", text |-> StringifyArray(Unique(list))]

\* ------------------------------------------------------------------------
\* Text normalizer: encodingFixes, fixEncoding, cleanString
\* ------------------------------------------------------------------------

Digits == {"0", "1", "2", "3", "4", "5", "6", "7", "8", "9"}

Letters ==
    {"a", "b", "c", "d", "e", "f", "g", "h", "i", "j", "k", "l", "m",
     "n", "o", "p", "q", "r", "s", "t", "u", "v", "w", "x", "y", "z",
     "A", "B", "C", "D", "E", "F", "G", "H", "I", "J", "K", "L", "M",
     "N", "O", "P", "Q", "R", "S", "T", "U", "V", "W", "X", "Y", "Z"}

\* the other characters of \x20-\x7E the model names
AsciiPunctuation == {" ", "quot", ".", ",", "-", ":", "/", "(", ")"}

\* the accented letters and signs the allow-list of fixEncoding names
AllowedAccents ==
    {"aacute", "eacute", "iacute", "oacute", "uacute", "ntilde",
     "Aacute", "Eacute", "Iacute", "Oacute", "Uacute", "Ntilde",
     "iexcl", "iquest", "uuml", "Uuml", "deg"}

\* characters \s matches, beyond the space
Whitespace == {"tab", "newline", "nbsp"}

\* Object.entries(encodingFixes): a key written twice keeps its first place
encodingFixes ==
    << <<<<"Atilde", "iexcl">>, <<"aacute">>>>,
       <<<<"Atilde", "copy">>, <<"eacute">>>>,
       <<<<"Atilde", "shy">>, <<"iacute">>>>,
       <<<<"Atilde", "sup3">>, <<"oacute">>>>,
       <<<<"Atilde", "ordm">>, <<"uacute">>>>,
       <<<<"Atilde", "Agrave">>, <<"Aacute">>>>,
       <<<<"Atilde", "Eacute">>, <<"Eacute">>>>,
       <<<<"Atilde", "Iacute">>, <<"Iacute">>>>,
       <<<<"Atilde", "Oacute">>, <<"Oacute">>>>,
       <<<<"Atilde", "Uacute">>, <<"Uacute">>>>,
       <<<<"Atilde", "plusmn">>, <<"ntilde">>>>,
       <<<<"Atilde", "Ntilde">>, <<"Ntilde">>>>,
       <<<<"Acirc", "Ntilde">>, <<"Ntilde">>>>,
       <<<<"Atilde", "ntilde">>, <<"ntilde">>>>,
       <<<<"Atilde", "iacute">>, <<"iacute">>>>,
       <<<<"Atilde", "aacute">>, <<"aacute">>>>,
       <<<<"Atilde", "Aacute">>, <<"Aacute">>>>,
       <<<<"Acirc", "iexcl">>, <<"iexcl">>>>,
       <<<<"Acirc", "iquest">>, <<"iquest">>>>,
       <<<<"Atilde", "frac14">>, <<"uuml">>>>,
       <<<<"Atilde", "oelig">>, <<"Uuml">>>>,
       <<<<"Acirc", "deg">>, <<"deg">>>>,
       <<<<"ordm">>, <<"deg">>>>,
       <<<<"Atilde", "deg">>, <<"deg">>>>,
       <<<<"Atilde", "sbquo", "Acirc", "deg">>, <<"deg">>>>,
       <<<<"Atilde", "ordm", "deg">>, <<"deg">>>>,
       <<<<"Atilde">>, <<>>>>,
       <<<<"Acirc">>, <<>>>>,
       <<<<"acirc", "euro", "cent">>, <<"bull">>>>,
       <<<<"acirc", "euro", "quot">>, <<"ndash">>>>,
       <<<<"acirc", "euro">>, <<"euro">>>>,
       <<<<"acirc", "bdquo", "cent">>, <<"trade">>>> >>

\* str.replace(new RegExp(wrong, 'g'), correct): every match, left to right
RECURSIVE ReplaceAll(_, _, _)
ReplaceAll(str, wrong, correct) ==
    IF Len(str) < Len(wrong) THEN str
    ELSE IF SubSeq(str, 1, Len(wrong)) = wrong
         THEN correct \o ReplaceAll(SubSeq(str, Len(wrong) + 1, Len(str)), wrong, correct)
         ELSE <<str[1]>> \o ReplaceAll(Tail(str), wrong, correct)

\* the for loop over the table, entries 1..k applied in table order; prev is
\* the value of `fixed` after the first k - 1 entries
RECURSIVE ApplyFixes(_, _)
ApplyFixes(str, k) ==
    IF k = 0 THEN str
    ELSE CHOOSE fixed \in {ReplaceAll(prev, encodingFixes[k][1], encodingFixes[k][2]) :
                              prev \in {ApplyFixes(str, k - 1)}} : TRUE

\* the characters the second replace keeps
AllowedChar(c) ==
    c \in Digits \cup Letters \cup AsciiPunctuation \cup AllowedAccents \cup Whitespace

\* the test without its \d+: any string of two or more ending in a letter
DigitsThenLetterAnyPrefix(str) == Len(str) >= 2 /\ str[Len(str)] \in Letters

\* /^\d+[A-Za-z]$/
DigitsThenLetter(str) ==
    /\ Len(str) >= 2
    /\ str[Len(str)] \in Letters
    /\ \A k \in 1..(Len(str) - 1) : str[k] \in Digits

\* fixEncoding applied to a string value
fixEncoding(str) ==
    IF str = <<>> THEN <<>>
    ELSE LET fixed1 == ApplyFixes(str, Len(encodingFixes))
             fixed2 == SelectSeq(fixed1, LAMBDA c : c # "replacement")
         IN CHOOSE fixed \in
                {IF DigitsThenLetter(fixed3)
                 THEN SubSeq(fixed3, 1, Len(fixed3) - 1) \o <<" ", fixed3[Len(fixed3)]>>
                 ELSE fixed3 : fixed3 \in {SelectSeq(fixed2, AllowedChar)}} : TRUE

IsSpace(c) == c \in Whitespace \cup {" "}

\* String.prototype.trim
RECURSIVE trim(_)
trim(str) ==
    IF str = <<>> THEN <<>>
    ELSE IF IsSpace(str[1]) THEN trim(Tail(str))
    ELSE IF IsSpace(str[Len(str)]) THEN trim(SubSeq(str, 1, Len(str) - 1))
    ELSE str

\* cleanString throws (str.trim is not a function) on a truthy non-string
cleanStringThrows(v) == Truthy(v) /\ v.t # "string"

\* cleanString where it returns
cleanString(v) == IF ~Truthy(v) THEN <<>> ELSE fixEncoding(trim(v.s))

\* ------------------------------------------------------------------------
\* Offer fetcher: getOffers
\* ------------------------------------------------------------------------

\* the documents the listing API may return
DocOne == [idoferta |-> Str(<<"1">>), id |-> Undefined, cargo |-> Str(<<"5", "A">>)]

DocTwo == [idoferta |-> Undefined, id |-> Num(2), cargo |-> Undefined]

DocNoId ==
    [idoferta |-> Undefined, id |-> Undefined,
     cargo |-> Str(<<" ", "M", "Atilde", "sup3", "d", "u", "l", "o">>)]

DocBadCargo == [idoferta |-> Str(<<"3">>), id |-> Undefined, cargo |-> Num(7)]

\* a second document without identifier
DocNoIdToo == [idoferta |-> Undefined, id |-> Undefined, cargo |-> Str(<<"A">>)]

\* a document whose idoferta is a number
DocNumber == [idoferta |-> Num(4), id |-> Undefined, cargo |-> Str(<<"A">>)]

Docs == {DocOne, DocTwo, DocNoId, DocBadCargo}

RECURSIVE SeqsUpTo(_, _)
SeqsUpTo(S, k) ==
    IF k = 0 THEN {<<>>}
    ELSE LET shorter == SeqsUpTo(S, k - 1)
         IN shorter \cup {Append(q, x) : q \in shorter, x \in S}

\* what axios.get gives: a rejection (network error or timeout), data
\* without response.docs, or data with a docs array
Responses ==
    {[kind |-> k, docs |-> <<>>] : k \in {"error", "timeout", "nodocs"}}
        \cup {[kind |-> "docs", docs |-> d] : d \in SeqsUpTo(Docs, MaxDocs)}

\* the id taken from idoferta alone, without the fallback to id
MapOfferNoFallback(doc) ==
    [id |-> Str(ToStringJS(Or(doc.idoferta, Str(<<>>)))),
     title |-> Str(cleanString(doc.cargo))]

\* the callback of docs.map where it returns
MapOffer(doc) ==
    [id |-> Str(ToStringJS(Or(Or(doc.idoferta, doc.id), Str(<<>>)))),
     title |-> Str(cleanString(doc.cargo))]

\* the callback of docs.map throws
MapOfferThrows(doc) == cleanStringThrows(doc.cargo)

\* a document whose mapping throws is skipped, the others are kept
getOffersSkipsBad(resp) ==
    IF resp.kind \in {"error", "timeout"} THEN <<>>
    ELSE LET docs == IF resp.kind = "docs" THEN resp.docs ELSE <<>>
             good == SelectSeq(docs, LAMBDA d : ~cleanStringThrows(d.cargo))
         IN [k \in 1..Len(good) |-> MapOffer(good[k])]

\* getOffers: [] from the catch block, else the mapped documents
getOffers(resp) ==
    IF resp.kind \in {"error", "timeout"} THEN <<>>
    ELSE LET docs == IF resp.kind = "docs" THEN resp.docs ELSE <<>>
         IN IF \E k \in 1..Len(docs) : MapOfferThrows(docs[k])
            THEN <<>>
            ELSE [k \in 1..Len(docs) |-> MapOffer(docs[k])]

\* ------------------------------------------------------------------------
\* State
\* ------------------------------------------------------------------------

VARIABLES
    estadoFile,     \* content of ESTADO_FILE
    usuariosFile,   \* content of USERS_FILE
    pc,             \* per invocation of checkOffers: where it is suspended
    state,          \* per invocation: the local `state` object
    offers,         \* per invocation: the local `offers` array
    i,              \* per invocation: position of the for loop over offers
    users,          \* per broadcast: the local `users` array
    u,              \* per broadcast: position of the for loop over users
    resp,           \* history: what axios.get gave this invocation
    before,         \* history: ESTADO_FILE when this invocation began
    sent,           \* history: ids this invocation broadcast, in order
    attempts,       \* history: the bot.sendMessage calls of this broadcast and how they settled
    notified,       \* history: broadcasts so far, per offer id
    started,        \* history: chats that have sent /start
    saved,          \* history: the state object of the last saveState call
    fetched,        \* history: some invocation completed after a fetch that succeeded
    cycles,         \* number of checkOffers invocations so far
    fn,             \* the function called on its own, "none" before the call
    arg,            \* the argument of that call
    ret             \* what that call returned, or that it threw

vars ==
    <<estadoFile, usuariosFile, pc, state, offers, i, users, u, resp, before,
      sent, attempts, notified, started, fetched, saved, cycles, fn, arg, ret>>

\* the variables of a function called on its own
callVars == <<fn, arg, ret>>

NoReturn == [threw |-> FALSE, val |-> <<>>, again |-> <<>>]

\* the ids getOffers can produce
AllIds == {MapOffer(d).id.s : d \in Docs \cup {DocNumber}}

NoResponse == [kind |-> "none", docs |-> <<>>]

\* ------------------------------------------------------------------------
\* checkOffers and sendTelegramMessageToAll
\* ------------------------------------------------------------------------
\*
\* An invocation is suspended at each await: "fetch" (await getOffers),
\* "deliver" (await bot.sendMessage inside the broadcast) and "sent" (the
\* promise of sendTelegramMessageToAll is settled, checkOffers has not yet
\* resumed).  Everything between two awaits is one step: the event loop runs
\* it without interruption.  Other invocations and /start handlers may run
\* while an invocation is suspended.  writeFileSync is taken to succeed.

\* the fetch ended in the catch block of getOffers
FetchFailed(r) ==
    \/ r.kind \in {"error", "timeout"}
    \/ \E k \in 1..Len(r.docs) : MapOfferThrows(r.docs[k])

\* the test left out: every fetched offer is taken for new
IsNewAlways(st, offer) == TRUE

\* the test always failing: no fetched offer is taken for new
IsNewNever(st, offer) == FALSE

\* the test of the for loop body: the offer is not in the local seen list
IsNew(st, offer) == ~includes(st.seen_offers, offer.id)

\* first position >= from whose offer passes the test, 0 when the loop ends
NextNew(st, offs, from) ==
    LET new == {k \in from..Len(offs) : IsNew(st, offs[k])}
    IN IF new = {} THEN 0 ELSE CHOOSE k \in new : \A m \in new : k <= m

\* the flag left as it was loaded
FirstRunStateKeepsFlag(st, offs) ==
    [seen_offers |-> [k \in 1..Len(offs) |-> offs[k].id], firstRun |-> st.firstRun]

\* the first-run branch: every fetched id recorded, the flag cleared
FirstRunState(st, offs) ==
    [seen_offers |-> [k \in 1..Len(offs) |-> offs[k].id], firstRun |-> Bool(FALSE)]

\* the push made on a state loaded afresh from the file
PushSeenReload(st, offer) ==
    [loadState(estadoFile) EXCEPT !.seen_offers = push(@, offer.id)]

\* the push left out
PushSeenNothing(st, offer) == st

\* the push made only when some bot.sendMessage of the broadcast resolved
PushSeenIfReached(st, offer) ==
    IF \E q \in Procs : pc[q] = "sent" /\ \E k \in 1..Len(attempts[q]) : attempts[q][k].ok
    THEN [st EXCEPT !.seen_offers = push(st.seen_offers, offer.id)]
    ELSE st

\* the list replaced by the one id instead of the push
PushSeenOnly(st, offer) == [st EXCEPT !.seen_offers = <<offer.id>>]

\* state.seen_offers.push(offer.id)
PushSeen(st, offer) == [st EXCEPT !.seen_offers = push(st.seen_offers, offer.id)]

\* a rejected send leaves the loop
NextRecipientAbort(k, n, ok) == IF ok THEN k + 1 ELSE n + 1

\* the for loop of sendTelegramMessageToAll after the send to users[k]
\* settled: the catch block logs, the loop goes on to the next recipient
NextRecipient(k, n, ok) == k + 1

\* the file an earlier run of the program left: its first fetch found no offers
InitializedStateFile == saveState(FirstRunState(DefaultState, <<>>))

\* the program before its first checkOffers call and its first /start
MachineInit ==
    /\ estadoFile \in {MissingStateFile, CorruptStateFile, InitializedStateFile}
    /\ usuariosFile = MissingUsersFile
    /\ pc = [p \in Procs |-> "idle"]
    /\ state = [p \in Procs |-> DefaultState]
    /\ offers = [p \in Procs |-> <<>>]
    /\ i = [p \in Procs |-> 0]
    /\ users = [p \in Procs |-> <<>>]
    /\ u = [p \in Procs |-> 0]
    /\ resp = [p \in Procs |-> NoResponse]
    /\ before = [p \in Procs |-> MissingStateFile]
    /\ sent = [p \in Procs |-> <<>>]
    /\ attempts = [p \in Procs |-> <<>>]
    /\ notified = [x \in AllIds |-> 0]
    /\ started = {}
    /\ fetched = (estadoFile = InitializedStateFile)
    /\ saved = loadState(estadoFile)
    /\ cycles = 0

Init ==
    /\ MachineInit
    /\ fn = "none"
    /\ arg = Undefined
    /\ ret = NoReturn

\* the invocation is over: it returns
Finish(p, r) ==
    /\ pc' = [pc EXCEPT ![p] = "done"]
    /\ i' = [i EXCEPT ![p] = 0]
    /\ fetched' = (fetched \/ ~FetchFailed(r))
    /\ UNCHANGED <<users, u, attempts, sent, notified>>

\* the for loop of checkOffers from position `from` with local state st:
\* it runs to the next new offer, builds the message and calls
\* sendTelegramMessageToAll, which loads the users and calls
\* bot.sendMessage for the first of them; or it runs off the end
Continue(p, st, offs, from, r) ==
    LET j == NextNew(st, offs, from)
        list == loadUsers(usuariosFile)
    IN IF j = 0
       THEN Finish(p, r)
       ELSE /\ i' = [i EXCEPT ![p] = j]
            /\ users' = [users EXCEPT ![p] = list]
            /\ u' = [u EXCEPT ![p] = 1]
            /\ attempts' = [attempts EXCEPT ![p] = <<>>]
            /\ sent' = [sent EXCEPT ![p] = Append(@, offs[j].id)]
            /\ notified' = [notified EXCEPT ![offs[j].id.s] = @ + 1]
            /\ pc' = [pc EXCEPT ![p] = IF list = <<>> THEN "sent" ELSE "deliver"]
            /\ UNCHANGED fetched

\* invocations are anonymous: a new one takes the lowest free slot
FreeSlot ==
    LET free == {q \in Procs : pc[q] = "idle"}
    IN IF free = {} THEN 0 ELSE CHOOSE q \in free : \A m \in free : q <= m

\* checkOffers up to `await getOffers(filters)`
CheckOffersBegin(p) ==
    /\ p = FreeSlot
    /\ cycles < MaxCycles
    /\ cycles' = cycles + 1
    /\ state' = [state EXCEPT ![p] = loadState(estadoFile)]
    /\ before' = [before EXCEPT ![p] = estadoFile]
    /\ pc' = [pc EXCEPT ![p] = "fetch"]
    /\ UNCHANGED <<estadoFile, usuariosFile, offers, i, users, u, resp, sent,
                   attempts, notified, started, fetched, saved>>
    /\ UNCHANGED callVars

\* getOffers settles; checkOffers takes the first-run branch or enters the loop
GetOffersReturn(p, r) ==
    /\ pc[p] = "fetch"
    /\ resp' = [resp EXCEPT ![p] = r]
    /\ offers' = [offers EXCEPT ![p] = getOffers(r)]
    /\ IF Truthy(state[p].firstRun)
       THEN /\ state' = [state EXCEPT ![p] = FirstRunState(state[p], getOffers(r))]
            /\ estadoFile' = saveState(state'[p])
            /\ saved' = state'[p]
            /\ Finish(p, r)
       ELSE /\ UNCHANGED <<state, estadoFile, saved>>
            /\ Continue(p, state[p], getOffers(r), 1, r)
    /\ UNCHANGED <<usuariosFile, before, started, cycles>>
    /\ UNCHANGED callVars

\* one bot.sendMessage of the broadcast settles, resolved (ok) or rejected
Deliver(p, ok) ==
    /\ pc[p] = "deliver"
    /\ attempts' = [attempts EXCEPT ![p] = Append(@, [chatId |-> users[p][u[p]], ok |-> ok])]
    /\ u' = [u EXCEPT ![p] = NextRecipient(u[p], Len(users[p]), ok)]
    /\ pc' = [pc EXCEPT ![p] = IF u'[p] > Len(users[p]) THEN "sent" ELSE "deliver"]
    /\ UNCHANGED <<estadoFile, usuariosFile, state, offers, i, users, resp, before,
                   sent, notified, started, fetched, saved, cycles>>
    /\ UNCHANGED callVars

\* sendTelegramMessageToAll returned: push, saveState, on with the loop
BroadcastReturn(p) ==
    /\ pc[p] = "sent"
    /\ state' = [state EXCEPT ![p] = PushSeen(state[p], offers[p][i[p]])]
    /\ estadoFile' = saveState(state'[p])
    /\ saved' = state'[p]
    /\ Continue(p, state'[p], offers[p], i[p] + 1, resp[p])
    /\ UNCHANGED <<usuariosFile, offers, resp, before, started, cycles>>
    /\ UNCHANGED callVars

\* the promise checkOffers returned resolves; its locals are gone
CheckOffersEnd(p) ==
    /\ pc[p] = "done"
    /\ pc' = [pc EXCEPT ![p] = "idle"]
    /\ state' = [state EXCEPT ![p] = DefaultState]
    /\ offers' = [offers EXCEPT ![p] = <<>>]
    /\ resp' = [resp EXCEPT ![p] = NoResponse]
    /\ before' = [before EXCEPT ![p] = MissingStateFile]
    /\ sent' = [sent EXCEPT ![p] = <<>>]
    /\ attempts' = [attempts EXCEPT ![p] = <<>>]
    /\ users' = [users EXCEPT ![p] = <<>>]
    /\ u' = [u EXCEPT ![p] = 0]
    /\ UNCHANGED <<estadoFile, usuariosFile, i, notified, started, fetched, saved, cycles>>
    /\ UNCHANGED callVars

\* ------------------------------------------------------------------------
\* /start handlers
\* ------------------------------------------------------------------------

\* the test left out: every /start appends
SubscribedNever(list, chatId) == FALSE

\* the test of the handler: the chat is already in the list
Subscribed(list, chatId) == includes(list, chatId)

\* botPolling.onText(/\/start/) of the checkOffers revision, up to its first
\* await; what follows only sends messages to the chat
OnStart(c) ==
    /\ usuariosFile' =
           IF Subscribed(loadUsers(usuariosFile), Num(c))
           THEN usuariosFile
           ELSE saveUsers(push(loadUsers(usuariosFile), Num(c)))
    /\ started' = started \cup {c}
    /\ UNCHANGED <<estadoFile, pc, state, offers, i, users, u, resp, before, sent,
                   attempts, notified, fetched, saved, cycles>>
    /\ UNCHANGED callVars

\* bot.onText(/\/start/) of the cron-task revision
OnStartCron(c) ==
    /\ usuariosFile' =
           IF Subscribed(loadUsers(usuariosFile), Num(c))
           THEN usuariosFile
           ELSE saveUsersUnique(push(loadUsers(usuariosFile), Num(c)))
    /\ started' = started \cup {c}
    /\ UNCHANGED <<estadoFile, pc, state, offers, i, users, u, resp, before, sent,
                   attempts, notified, fetched, saved, cycles>>
    /\ UNCHANGED callVars

\* ------------------------------------------------------------------------
\* Specifications
\* ------------------------------------------------------------------------

\* no invocation of checkOffers is in flight
Quiet == \A q \in Procs : pc[q] = "idle"

\* the program: the startup call and the cron ticks may overlap
Next ==
    \/ \E p \in Procs : CheckOffersBegin(p)
    \/ \E p \in Procs, r \in Responses : GetOffersReturn(p, r)
    \/ \E p \in Procs, ok \in BOOLEAN : Deliver(p, ok)
    \/ \E p \in Procs : BroadcastReturn(p)
    \/ \E p \in Procs : CheckOffersEnd(p)
    \/ \E c \in Chats : OnStart(c)
    \/ \E c \in Chats : OnStartCron(c)

Spec == Init /\ [][Next]_vars

\* the deployment the spec assumes: every cycle completes before the next starts
NextSeq ==
    \/ \E p \in Procs : Quiet /\ CheckOffersBegin(p)
    \/ \E p \in Procs, r \in Responses : GetOffersReturn(p, r)
    \/ \E p \in Procs, ok \in BOOLEAN : Deliver(p, ok)
    \/ \E p \in Procs : BroadcastReturn(p)
    \/ \E p \in Procs : CheckOffersEnd(p)
    \/ \E c \in Chats : OnStart(c)
    \/ \E c \in Chats : OnStartCron(c)

SpecSeq == Init /\ [][NextSeq]_vars

\* ------------------------------------------------------------------------
\* Properties
\* ------------------------------------------------------------------------

Elems(q) == {q[k] : k \in 1..Len(q)}

\* the state invocation p loaded when it began
Loaded(p) == loadState(before[p])

\* the ids of the offers invocation p fetched
FetchedIds(p) == {offers[p][k].id : k \in 1..Len(offers[p])}

\* C1: with cycles one after another, no invocation broadcasts an offer whose
\* id was in the persisted seen list when it began, and no offer id is
\* broadcast more than once over the whole run.
C1_SeenNotNotified ==
    /\ \A p \in Procs : \A k \in 1..Len(sent[p]) :
           ~includes(Loaded(p).seen_offers, sent[p][k])
    /\ \A x \in AllIds : notified[x] <= 1

\* C1 witness: a cycle that fetched an offer broadcast by an earlier cycle
\* has completed without broadcasting anything.
C1_Witness ==
    \E p \in Procs :
        /\ pc[p] = "done"
        /\ ~Truthy(Loaded(p).firstRun)
        /\ sent[p] = <<>>
        /\ \E x \in FetchedIds(p) :
               includes(Loaded(p).seen_offers, x) /\ notified[x.s] = 1

\* C2: a steady-state cycle whose fetch holds exactly one id absent from the
\* persisted seen list broadcasts once, for that id, and leaves the persisted
\* state equal to the loaded one with that id appended.
C2_OneNewOneNotification ==
    \A p \in Procs :
        LET new == FetchedIds(p) \ Elems(Loaded(p).seen_offers)
        IN (pc[p] = "done" /\ ~Truthy(Loaded(p).firstRun) /\ Cardinality(new) = 1)
               => \A x \in new :
                      /\ sent[p] = <<x>>
                      /\ loadState(estadoFile) =
                             [Loaded(p) EXCEPT !.seen_offers = Append(@, x)]

\* C2 witness: the fetch held a seen offer and one new offer.
C2_Witness ==
    \E p \in Procs :
        /\ pc[p] = "done"
        /\ ~Truthy(Loaded(p).firstRun)
        /\ Len(offers[p]) = 2
        /\ Len(Loaded(p).seen_offers) = 1
        /\ Cardinality(FetchedIds(p) \ Elems(Loaded(p).seen_offers)) = 1
        /\ Len(estadoFile.text.seen_offers) = 2

\* C3: the step that completes a first-run cycle writes to the state file the
\* ids of all fetched offers, in order, with firstRun false, and the cycle has
\* broadcast nothing and called bot.sendMessage for nobody.
C3_FirstRunRecordsOnly ==
    [][\A p \in Procs :
           (pc[p] = "fetch" /\ Truthy(state[p].firstRun) /\ pc'[p] # "fetch")
               => /\ pc'[p] = "done"
                  /\ estadoFile'.kind = "json"
                  /\ loadState(estadoFile').seen_offers =
                         [k \in 1..Len(offers'[p]) |-> offers'[p][k].id]
                  /\ loadState(estadoFile').firstRun = Bool(FALSE)
                  /\ sent'[p] = <<>>
                  /\ attempts'[p] = <<>>
                  /\ notified' = notified]_vars

\* C3 witness: a first-run cycle that fetched two offers has completed.
C3_Witness ==
    \E p \in Procs :
        /\ pc[p] = "done"
        /\ Truthy(Loaded(p).firstRun)
        /\ Len(offers[p]) = 2
        /\ Len(estadoFile.text.seen_offers) = 2

\* C4: the persisted first-run flag is true as long as no cycle whose fetch
\* succeeded has completed.
C4_FlagUntilSuccessfulPoll == ~fetched => Truthy(loadState(estadoFile).firstRun)

\* C5: a cycle whose fetch failed completes without a broadcast and with the
\* state file as it was when the cycle began.
C5_FailedFetchNoEffect ==
    \A p \in Procs :
        (pc[p] = "done" /\ FetchFailed(resp[p]))
            => sent[p] = <<>> /\ estadoFile = before[p]

\* the ids invocation p has pushed: those it broadcast, but the one in flight
Pushed(p) ==
    IF pc[p] \in {"deliver", "sent"} THEN SubSeq(sent[p], 1, Len(sent[p]) - 1)
    ELSE sent[p]

\* C6: overlapping invocations each work on their own copy: the local seen
\* list of a steady-state invocation is the list it loaded followed by the ids
\* it pushed itself, whatever the other has saved meanwhile, and each save
\* replaces the persisted list by the saver's local list.
C6_OwnCopyLastWriterWins ==
    /\ [](\A p \in Procs :
              (pc[p] \in {"deliver", "sent", "done"} /\ ~Truthy(Loaded(p).firstRun))
                  => state[p].seen_offers = Loaded(p).seen_offers \o Pushed(p))
    /\ [][\A p \in Procs :
              (pc[p] = "sent" /\ pc'[p] # "sent")
                  => loadState(estadoFile').seen_offers = state'[p].seen_offers]_vars

\* C6 witness: two invocations overlapped, both broadcast the same id, and an
\* id the first pushed and saved is no longer in the state file.
C6_Witness ==
    \E p \in Procs, q \in Procs :
        /\ p # q
        /\ \E x \in Elems(sent[p]) : x \in Elems(sent[q]) /\ notified[x.s] >= 2
        /\ \E y \in Elems(Pushed(p)) :
               ~includes(loadState(estadoFile).seen_offers, y)

\* C7: when sendTelegramMessageToAll returns, bot.sendMessage has been called
\* once for each entry of the list loaded at the start of the broadcast, in
\* list order, and for no chat twice, whether or not the sends were rejected.
C7_EveryRecipientAttempted ==
    \A p \in Procs :
        pc[p] = "sent"
            => /\ [k \in 1..Len(attempts[p]) |-> attempts[p][k].chatId] = users[p]
               /\ \A k, m \in 1..Len(attempts[p]) :
                      attempts[p][k].chatId = attempts[p][m].chatId => k = m

\* C7 witness: the send to the first of two recipients was rejected, the
\* second was attempted all the same and the broadcast returned.
C7_Witness ==
    \E p \in Procs :
        /\ pc[p] = "sent"
        /\ Len(attempts[p]) = 2
        /\ ~attempts[p][1].ok

\* C8: whatever /start events and poll-cycle steps interleave, the persisted
\* subscriber list holds no chat twice and every chat that sent /start, and no
\* step removes a chat from it.
C8_Subscribers ==
    /\ [](LET list == loadUsers(usuariosFile)
          IN /\ \A k, m \in 1..Len(list) : list[k] = list[m] => k = m
             /\ \A c \in started : includes(list, Num(c)))
    /\ [][\A x \in Elems(loadUsers(usuariosFile)) :
              includes(loadUsers(usuariosFile'), x)]_vars

\* C8 witness: both chats are subscribed, the second one since a broadcast
\* that is still under way began.
C8_Witness ==
    /\ started = Chats
    /\ Len(loadUsers(usuariosFile)) = 2
    /\ \E p \in Procs : pc[p] = "deliver" /\ Len(users[p]) = 1

\* C9: loadState of a missing or unparsable file is the default state, and
\* loadState of a written file is the state object given to the last saveState.
C9_LoadState ==
    /\ estadoFile.kind \in {"missing", "corrupt"}
           => loadState(estadoFile) = [seen_offers |-> <<>>, firstRun |-> Bool(TRUE)]
    /\ estadoFile.kind = "json" => loadState(estadoFile) = saved

\* C9 witness: an invocation has loaded a file a steady-state cycle wrote.
C9_Witness ==
    \E p \in Procs :
        /\ pc[p] = "fetch"
        /\ estadoFile.kind = "json"
        /\ state[p] = saved
        /\ Len(saved.seen_offers) = 2
        /\ ~Truthy(saved.firstRun)

\* C10: getOffers gives the empty array after a network error, a timeout, a
\* response without docs or a document whose mapping throws, and otherwise one
\* offer per document, in document order, with the id taken from idoferta,
\* else id, else the empty string.
C10_GetOffers ==
    \A p \in Procs :
        resp[p].kind # "none"
            => IF \/ resp[p].kind \in {"error", "timeout", "nodocs"}
                  \/ \E k \in 1..Len(resp[p].docs) :
                         Truthy(resp[p].docs[k].cargo) /\ resp[p].docs[k].cargo.t # "string"
               THEN offers[p] = <<>>
               ELSE /\ Len(offers[p]) = Len(resp[p].docs)
                    /\ \A k \in 1..Len(offers[p]) :
                           LET doc == resp[p].docs[k]
                           IN offers[p][k].id =
                                  IF Truthy(doc.idoferta) THEN Str(ToStringJS(doc.idoferta))
                                  ELSE IF Truthy(doc.id) THEN Str(ToStringJS(doc.id))
                                  ELSE Str(<<>>)

\* C10 witness: a response of two documents, the second of which cannot be
\* mapped, gave no offers.
C10_Witness ==
    \E p \in Procs :
        /\ resp[p].kind = "docs"
        /\ Len(resp[p].docs) = 2
        /\ ~MapOfferThrows(resp[p].docs[1])
        /\ MapOfferThrows(resp[p].docs[2])
        /\ offers[p] = <<>>

\* ------------------------------------------------------------------------
\* The text normalizer called on its own
\* ------------------------------------------------------------------------

\* longest clean string given to fixEncoding
MaxLen == 3

\* characters of clean input: a digit, a letter, the space, an ASCII sign
\* and an accented letter of the allow-list
CleanChars == {"5", "A", " ", "quot", "oacute"}

CleanStrings == SeqsUpTo(CleanChars, MaxLen)

\* the keys of encodingFixes
FixKeys == {encodingFixes[k][1] : k \in 1..Len(encodingFixes)}

\* the arguments: absent values, non-strings, table keys, clean strings
TextInputs ==
    {Undefined, Null, Num(0), Num(7), Bool(TRUE), Object}
        \cup {Str(x) : x \in FixKeys \cup CleanStrings}

\* fixEncoding with its guard `!str || typeof str !== 'string'`
fixEncodingJS(v) == IF ~Truthy(v) \/ v.t # "string" THEN <<>> ELSE fixEncoding(v.s)

InitText ==
    /\ MachineInit
    /\ estadoFile = MissingStateFile
    /\ fn = "none"
    /\ arg \in TextInputs
    /\ ret = NoReturn

\* cleanString(arg)
CallCleanString ==
    /\ fn = "none"
    /\ fn' = "cleanString"
    /\ ret' = [threw |-> cleanStringThrows(arg),
               val |-> IF cleanStringThrows(arg) THEN <<>> ELSE cleanString(arg),
               again |-> <<>>]
    /\ UNCHANGED <<estadoFile, usuariosFile, pc, state, offers, i, users, u, resp,
                   before, sent, attempts, notified, started, fetched, saved,
                   cycles, arg>>

\* fixEncoding(arg)
CallFixEncoding ==
    /\ fn = "none"
    /\ fn' = "fixEncoding"
    /\ ret' = [threw |-> FALSE, val |-> fixEncodingJS(arg), again |-> <<>>]
    /\ UNCHANGED <<estadoFile, usuariosFile, pc, state, offers, i, users, u, resp,
                   before, sent, attempts, notified, started, fetched, saved,
                   cycles, arg>>

\* fixEncoding applied to what fixEncoding(arg) returned
CallFixEncodingAgain ==
    /\ fn = "fixEncoding"
    /\ fn' = "fixEncodingTwice"
    /\ ret' = [ret EXCEPT !.again = fixEncodingJS(Str(ret.val))]
    /\ UNCHANGED <<estadoFile, usuariosFile, pc, state, offers, i, users, u, resp,
                   before, sent, attempts, notified, started, fetched, saved,
                   cycles, arg>>

NextText == CallCleanString \/ CallFixEncoding \/ CallFixEncodingAgain

SpecText == InitText /\ [][NextText]_vars

\* C11: cleanString does not throw, and gives the empty string for every
\* argument that is not a string.
C11_CleanStringTotal ==
    fn = "cleanString" => ~ret.threw /\ (arg.t # "string" => ret.val = <<>>)

\* C12: fixEncoding of a key of encodingFixes is the value the table gives
\* for that key.
C12_TableKeysFixed ==
    \A k \in 1..Len(encodingFixes) :
        (fn = "fixEncoding" /\ arg = Str(encodingFixes[k][1]))
            => ret.val = encodingFixes[k][2]

\* C13: on a string of printable ASCII and allowed accented letters,
\* fixEncoding applied twice gives what fixEncoding applied once gives.
C13_IdempotentOnClean ==
    (fn = "fixEncodingTwice" /\ arg.t = "string" /\ arg.s \in CleanStrings)
        => ret.again = ret.val

\* C13 witness: "5A" became "5 A", and "5 A" stayed "5 A".
C13_Witness ==
    /\ fn = "fixEncodingTwice"
    /\ arg = Str(<<"5", "A">>)
    /\ ret.val = <<"5", " ", "A">>
    /\ ret.again = <<"5", " ", "A">>

\* ------------------------------------------------------------------------
\* The notifier's message
\* ------------------------------------------------------------------------

\* formatSchedule's marker for an offer without schedule
NoEspecificado ==
    <<"N", "o", " ", "e", "s", "p", "e", "c", "i", "f", "i", "c", "a", "d", "o">>

\* one line of the message: its label and the text interpolated after it
Line(label, v) == [label |-> label, value |-> ToStringJS(v)]

\* the guard `if (offer.jornada)`, `if (offer.hsmodulos)`
Present(v) == Truthy(v)

\* the guard `offer.horarios && offer.horarios !== 'No especificado'`
HasSchedule(v) == Truthy(v) /\ v # Str(NoEspecificado)

\* createOfferMessage(offer, isNew): the lines of the block, in order
createOfferMessage(offer, isNew) ==
    <<Line("title", Str(IF isNew THEN <<"Nueva Oferta:">> ELSE <<"Oferta Publicada:">>)),
      Line("Cargo", offer.title),
      Line("Cierre de oferta", offer.cierreoferta),
      Line("Estado", offer.estado),
      Line("Distrito", offer.zone),
      Line("Nivel o Modalidad", offer.nivelModalidad),
      [label |-> "Curso/Division",
       value |-> ToStringJS(offer.cursodivision) \o <<" - Turno: ">>
                    \o ToStringJS(offer.turno)],
      Line("Domicilio", offer.domiciliodesempeno)>>
    \o (IF HasSchedule(offer.horarios)
        THEN <<Line("Horarios de desempeno", offer.horarios)>> ELSE <<>>)
    \o (IF Present(offer.jornada)
        THEN <<Line("Jornada", offer.jornada)>> ELSE <<>>)
    \o (IF Present(offer.hsmodulos)
        THEN <<Line("Horas/Modulos", offer.hsmodulos)>> ELSE <<>>)
    \o <<Line("Revista", offer.supl_revista),
         Line("Inicio", offer.iniciooferta),
         Line("Suplencia hasta", offer.supl_hasta),
         Line("Toma de posesion", offer.tomaposesion),
         Line("Escuela", offer.escuela),
         Line("Observaciones", offer.observaciones),
         Line("Enlace", offer.link)>>

\* an offer as getOffers builds it, with the fields the message may omit
\* left to the caller
OfferWith(horarios, jornada, hsmodulos, observaciones) ==
    [id |-> Str(<<"1">>),
     title |-> Str(<<"5", " ", "A">>),
     cierreoferta |-> Str(<<"2", "0", "2", "5">>),
     zone |-> Str(<<"A">>),
     nivelModalidad |-> Str(<<"A">>),
     cursodivision |-> Str(<<"5">>),
     escuela |-> Str(<<"A">>),
     domiciliodesempeno |-> Str(<<"A">>),
     estado |-> Str(<<"A">>),
     iniciooferta |-> Str(<<"2", "0", "2", "5">>),
     supl_hasta |-> Str(<<>>),
     turno |-> Str(<<"A">>),
     tomaposesion |-> Str(<<"2", "0", "2", "5">>),
     supl_revista |-> Str(<<"A">>),
     horarios |-> horarios,
     jornada |-> jornada,
     hsmodulos |-> hsmodulos,
     observaciones |-> observaciones,
     link |-> Str(<<"https://servicios.abc.gob.ar/actos.publicos.digitales/">>)]

\* the values of an optional field: absent, empty, given
OptionalValues == {Undefined, Str(<<>>), Str(<<"5">>)}

\* the schedules formatSchedule gives, and the empty one
Schedules == {Str(<<>>), Str(NoEspecificado), Str(<<"Lunes: ", "5">>)}

\* the remarks cleanString gives
Remarks == {Str(<<>>), Str(<<"A">>)}

MessageInputs ==
    {[offer |-> OfferWith(h, j, m, o), isNew |-> n] :
        h \in Schedules, j \in OptionalValues, m \in OptionalValues,
        o \in Remarks, n \in BOOLEAN}

InitMessage ==
    /\ MachineInit
    /\ estadoFile = MissingStateFile
    /\ fn = "none"
    /\ arg \in MessageInputs
    /\ ret = NoReturn

\* createOfferMessage(arg.offer, arg.isNew)
CallCreateOfferMessage ==
    /\ fn = "none"
    /\ fn' = "createOfferMessage"
    /\ ret' = [threw |-> FALSE,
               val |-> createOfferMessage(arg.offer, arg.isNew),
               again |-> <<>>]
    /\ UNCHANGED <<estadoFile, usuariosFile, pc, state, offers, i, users, u, resp,
                   before, sent, attempts, notified, started, fetched, saved,
                   cycles, arg>>

NextMessage == CallCreateOfferMessage

SpecMessage == InitMessage /\ [][NextMessage]_vars

\* the labels of the lines of a message
Labels(message) == {message[k].label : k \in 1..Len(message)}

\* the fields the message may leave out
OptionalLabels == {"Horarios de desempeno", "Jornada", "Horas/Modulos", "Observaciones"}

\* C14: the message has no schedule line when the schedule is empty or the
\* marker, no Observaciones line when the remarks are empty, no Jornada and
\* no Horas/Modulos line when the field is absent, and none of these lines
\* has an empty value.
C14_AbsentFieldsOmitted ==
    fn = "createOfferMessage" =>
        /\ arg.offer.horarios \in {Str(<<>>), Str(NoEspecificado)}
              => "Horarios de desempeno" \notin Labels(ret.val)
        /\ arg.offer.observaciones = Str(<<>>)
              => "Observaciones" \notin Labels(ret.val)
        /\ arg.offer.jornada = Undefined => "Jornada" \notin Labels(ret.val)
        /\ arg.offer.hsmodulos = Undefined => "Horas/Modulos" \notin Labels(ret.val)
        /\ \A k \in 1..Len(ret.val) :
              ret.val[k].label \in OptionalLabels => ret.val[k].value # <<>>

\* ------------------------------------------------------------------------
\* The cron-task revision: getOffers without mapping, the inline poll
\* ------------------------------------------------------------------------
\*
\* The callback of cron.schedule is suspended at "cronFetch" (await
\* getOffers), "cronDeliver" (await bot.sendMessage inside the broadcast) and
\* "cronSent" (sendTelegramMessageToAll settled, the callback not yet
\* resumed).  A throw inside the callback rejects its promise: the callback
\* is over and nothing after the throw runs.

\* the documents given to this revision
CronDocs == {DocOne, DocNumber, DocTwo, DocBadCargo}

CronResponses ==
    {[kind |-> k, docs |-> <<>>] : k \in {"error", "timeout", "nodocs"}}
        \cup {[kind |-> "docs", docs |-> d] : d \in SeqsUpTo(CronDocs, MaxDocs)}

\* getOffers of this revision: the documents as they came, [] from the catch
getOffersCron(r) == IF r.kind = "docs" THEN r.docs ELSE <<>>

\* offers.filter(offer => !state.seen_offers.includes(offer.idoferta))
NewOffers(st, docs) ==
    SelectSeq(docs, LAMBDA d : ~includes(st.seen_offers, d.idoferta))

\* createOfferMessage of this revision throws: cleanString(offer.cargo)
\* calls trim on a value that is truthy and not a string
CronMessageThrows(doc) == doc.cargo.t # "string" /\ Truthy(doc.cargo)

\* the offer a document stands for, as the history names it
CronKey(doc) == ToStringJS(Or(Or(doc.idoferta, doc.id), Str(<<>>)))

\* state.seen_offers.push(offer.idoferta)
PushIdoferta(st, doc) ==
    [st EXCEPT !.seen_offers = push(st.seen_offers, doc.idoferta)]

\* the assignment left out: the flag stays as it was loaded
ClearFirstRunNot(st) == st

\* state.firstRun = false
ClearFirstRun(st) == [st EXCEPT !.firstRun = Bool(FALSE)]

\* the callback is over
CronFinish(p, r) ==
    /\ pc' = [pc EXCEPT ![p] = "done"]
    /\ i' = [i EXCEPT ![p] = 0]
    /\ fetched' = (fetched \/ r.kind \in {"docs", "nodocs"})

\* the for loop over newOffers at position j with local state st: past the
\* end it clears the flag and saves; else it builds the message, which may
\* throw, and calls sendTelegramMessageToAll
CronContinue(p, st, offs, j, r) ==
    LET list == loadUsers(usuariosFile)
    IN IF j > Len(offs)
       THEN /\ state' = [state EXCEPT ![p] = ClearFirstRun(st)]
            /\ estadoFile' = saveState(ClearFirstRun(st))
            /\ saved' = ClearFirstRun(st)
            /\ CronFinish(p, r)
            /\ UNCHANGED <<users, u, attempts, sent, notified>>
       ELSE IF CronMessageThrows(offs[j])
       THEN /\ state' = [state EXCEPT ![p] = st]
            /\ CronFinish(p, r)
            /\ UNCHANGED <<estadoFile, saved, users, u, attempts, sent, notified>>
       ELSE /\ state' = [state EXCEPT ![p] = st]
            /\ i' = [i EXCEPT ![p] = j]
            /\ users' = [users EXCEPT ![p] = list]
            /\ u' = [u EXCEPT ![p] = 1]
            /\ attempts' = [attempts EXCEPT ![p] = <<>>]
            /\ sent' = [sent EXCEPT ![p] = Append(@, offs[j].idoferta)]
            /\ notified' = [notified EXCEPT ![CronKey(offs[j])] = @ + 1]
            /\ pc' = [pc EXCEPT ![p] = IF list = <<>> THEN "cronSent" ELSE "cronDeliver"]
            /\ UNCHANGED <<estadoFile, saved, fetched>>

\* the callback up to `await getOffers()`
CronBegin(p) ==
    /\ p = FreeSlot
    /\ cycles < MaxCycles
    /\ cycles' = cycles + 1
    /\ state' = [state EXCEPT ![p] = loadState(estadoFile)]
    /\ before' = [before EXCEPT ![p] = estadoFile]
    /\ pc' = [pc EXCEPT ![p] = "cronFetch"]
    /\ UNCHANGED <<estadoFile, usuariosFile, offers, i, users, u, resp, sent,
                   attempts, notified, started, fetched, saved>>
    /\ UNCHANGED callVars

\* getOffers settles: the filter, then "No hay nuevas ofertas" or the loop
CronGetOffersReturn(p, r) ==
    /\ pc[p] = "cronFetch"
    /\ resp' = [resp EXCEPT ![p] = r]
    /\ offers' = [offers EXCEPT ![p] = NewOffers(state[p], getOffersCron(r))]
    /\ IF offers'[p] = <<>>
       THEN /\ CronFinish(p, r)
            /\ UNCHANGED <<state, estadoFile, saved, users, u, attempts, sent, notified>>
       ELSE CronContinue(p, state[p], offers'[p], 1, r)
    /\ UNCHANGED <<usuariosFile, before, started, cycles>>
    /\ UNCHANGED callVars

\* one bot.sendMessage of the broadcast settles, resolved (ok) or rejected
CronDeliver(p, ok) ==
    /\ pc[p] = "cronDeliver"
    /\ attempts' = [attempts EXCEPT ![p] = Append(@, [chatId |-> users[p][u[p]], ok |-> ok])]
    /\ u' = [u EXCEPT ![p] = NextRecipient(u[p], Len(users[p]), ok)]
    /\ pc' = [pc EXCEPT ![p] = IF u'[p] > Len(users[p]) THEN "cronSent" ELSE "cronDeliver"]
    /\ UNCHANGED <<estadoFile, usuariosFile, state, offers, i, users, resp, before,
                   sent, notified, started, fetched, saved, cycles>>
    /\ UNCHANGED callVars

\* sendTelegramMessageToAll returned: push, on with the loop
CronBroadcastReturn(p) ==
    /\ pc[p] = "cronSent"
    /\ CronContinue(p, PushIdoferta(state[p], offers[p][i[p]]), offers[p],
                    i[p] + 1, resp[p])
    /\ UNCHANGED <<usuariosFile, offers, resp, before, started, cycles>>
    /\ UNCHANGED callVars

\* the promise of the callback settles; its locals are gone
CronEnd(p) == CheckOffersEnd(p)

\* the cron-task revision: a tick may find the previous callback suspended
NextCron ==
    \/ \E p \in Procs : CronBegin(p)
    \/ \E p \in Procs : \E r \in CronResponses : CronGetOffersReturn(p, r)
    \/ \E p \in Procs : \E ok \in BOOLEAN : CronDeliver(p, ok)
    \/ \E p \in Procs : CronBroadcastReturn(p)
    \/ \E p \in Procs : CronEnd(p)
    \/ \E c \in Chats : OnStartCron(c)

SpecCron == Init /\ [][NextCron]_vars

\* the cron-task revision when every callback ends before the next tick
NextCronSeq ==
    \/ Quiet /\ \E p \in Procs : CronBegin(p)
    \/ \E p \in Procs : \E r \in CronResponses : CronGetOffersReturn(p, r)
    \/ \E p \in Procs : \E ok \in BOOLEAN : CronDeliver(p, ok)
    \/ \E p \in Procs : CronBroadcastReturn(p)
    \/ \E p \in Procs : CronEnd(p)
    \/ \E c \in Chats : OnStartCron(c)

SpecCronSeq == Init /\ [][NextCronSeq]_vars

\* C15: in the cron-task revision, with callbacks that do not overlap, a
\* callback sends no notification for an offer whose idoferta an earlier
\* callback wrote to the state file, be the idoferta a string, a number or
\* absent.
C15_CronSeenNotNotified ==
    \A p \in Procs :
        pc[p] \in {"cronDeliver", "cronSent", "done"} =>
            \A k \in 1..Len(sent[p]) :
                ~includes(before[p].text.seen_offers, StringifyElement(sent[p][k]))

\* ------------------------------------------------------------------------
\* Properties of the poll loop over several cycles
\* ------------------------------------------------------------------------

\* the step in which invocation p resumes after sendTelegramMessageToAll
BroadcastReturns(p) ==
    pc[p] = "sent" /\ (pc'[p] = "done" \/ sent'[p] # sent[p])

\* C16: when the broadcast of an offer returns, whatever the bot.sendMessage
\* calls did and also when there was none, the same step appends the offer's
\* id to the seen list and writes it to the state file, before the loop
\* reaches the next offer; and with cycles one after another no broadcast
\* begins for an id that is in the state file.
C16_PersistedWhenBroadcastReturns ==
    [][/\ \A p \in Procs :
              BroadcastReturns(p) =>
                  LET x == offers[p][i[p]].id
                  IN /\ state'[p].seen_offers = Append(state[p].seen_offers, x)
                     /\ estadoFile' = saveState(state'[p])
                     /\ includes(loadState(estadoFile').seen_offers, x)
       /\ \A x \in AllIds :
              notified'[x] > notified[x] =>
                  ~includes(loadState(estadoFile).seen_offers, Str(x))]_vars

\* C16 witness: a cycle has ended whose only broadcast went to one
\* subscriber and failed, and the id is in the state file.
C16_Witness ==
    \E p \in Procs :
        /\ pc[p] = "done"
        /\ Len(sent[p]) = 1
        /\ Len(attempts[p]) = 1
        /\ ~attempts[p][1].ok
        /\ includes(loadState(estadoFile).seen_offers, sent[p][1])

\* a cron tick when no invocation is in flight, in a run of any length:
\* checkOffers up to `await getOffers(filters)`
CheckOffersTick(p) ==
    /\ Quiet
    /\ p = FreeSlot
    /\ state' = [state EXCEPT ![p] = loadState(estadoFile)]
    /\ before' = [before EXCEPT ![p] = estadoFile]
    /\ pc' = [pc EXCEPT ![p] = "fetch"]
    /\ UNCHANGED <<estadoFile, usuariosFile, offers, i, users, u, resp, sent,
                   attempts, notified, started, fetched, saved, cycles>>
    /\ UNCHANGED callVars

\* the offer that stays in the listing
Wanted == DocOne

\* the fetches that succeed and return the offer that stays
WantedResponses ==
    {r \in Responses : ~FetchFailed(r) /\ \E k \in 1..Len(r.docs) : r.docs[k] = Wanted}

\* getOffers settles with one of them
FetchWanted == \E p \in Procs : \E r \in WantedResponses : GetOffersReturn(p, r)

\* the steps of the poll loop; with cycles one after another exactly one of
\* them is enabled at any time
PollStep ==
    \/ \E p \in Procs : CheckOffersTick(p)
    \/ \E p \in Procs, r \in Responses : GetOffersReturn(p, r)
    \/ \E p \in Procs, ok \in BOOLEAN : Deliver(p, ok)
    \/ \E p \in Procs : BroadcastReturn(p)
    \/ \E p \in Procs : CheckOffersEnd(p)

NextLive == PollStep \/ \E c \in Chats : OnStart(c)

\* cycles one after another without end.  cron fires again and again, every
\* await settles (axios has a timeout, bot.sendMessage resolves or rejects),
\* and again and again a fetch succeeds and returns the offer that stays.
SpecLive ==
    /\ Init
    /\ [][NextLive]_vars
    /\ WF_vars(PollStep)
    /\ SF_vars(FetchWanted)

\* the state file is past the first run and does not hold the id of the
\* offer that stays
WantedUnseen ==
    /\ estadoFile.kind = "json"
    /\ ~Truthy(loadState(estadoFile).firstRun)
    /\ ~includes(loadState(estadoFile).seen_offers, MapOffer(Wanted).id)

\* the offer that stays has been broadcast and its id is in the state file
WantedDone ==
    /\ notified[MapOffer(Wanted).id.s] >= 1
    /\ includes(loadState(estadoFile).seen_offers, MapOffer(Wanted).id)

\* C17: with cycles one after another, cron firing again and again and
\* fetches that succeed again and again, an offer that is past the first run
\* absent from the persisted seen list and stays in the listing is
\* eventually broadcast and its id written to the state file, whatever
\* fetches fail in between.
C17_EventuallyNotified == WantedUnseen ~> WantedDone

\* C17 witness: a cycle that began past the first run with the id absent
\* from the state file has broadcast the offer, and the id is in the state
\* file.
C17_Witness ==
    \E p \in Procs :
        /\ pc[p] = "done"
        /\ before[p].kind = "json"
        /\ ~Truthy(Loaded(p).firstRun)
        /\ ~includes(Loaded(p).seen_offers, MapOffer(Wanted).id)
        /\ sent[p] = <<MapOffer(Wanted).id>>
        /\ WantedDone

\* the program is one of its two revisions: the poll is checkOffers or the
\* inline cron task
Revisions == {"checkOffers", "cron.schedule"}

InitRevisions ==
    /\ MachineInit
    /\ fn \in Revisions
    /\ arg = Undefined
    /\ ret = NoReturn

\* either revision, with ticks that may find earlier cycles suspended
NextRevisions ==
    \/ fn = "checkOffers" /\ Next
    \/ fn = "cron.schedule" /\ NextCron

SpecRevisions == InitRevisions /\ [][NextRevisions]_vars

\* C18: in both revisions, overlapping cycles included, every state file a
\* cycle leaves holds firstRun false; a cycle that loaded a written state
\* file does not hold a true flag, so it does not take the first-run branch;
\* and the flag in the file never goes from false to true.
C18_FlagStaysCleared ==
    [][/\ estadoFile'.kind = "json"
             => loadState(estadoFile').firstRun = Bool(FALSE)
       /\ saved' # saved => saved'.firstRun = Bool(FALSE)
       /\ \A p \in Procs :
              (pc'[p] \in {"fetch", "cronFetch"} /\ before'[p].kind = "json")
                  => ~Truthy(state'[p].firstRun)
       /\ ~Truthy(loadState(estadoFile).firstRun)
             => ~Truthy(loadState(estadoFile').firstRun)]_vars

\* C18 witness: a first cycle has written the state file and is not yet
\* over; a second cycle has loaded that file and waits for its fetch with
\* the flag false.
C18_Witness ==
    \E p, q \in Procs :
        /\ pc[p] = "done"
        /\ before[p].kind = "missing"
        /\ estadoFile.kind = "json"
        /\ pc[q] \in {"fetch", "cronFetch"}
        /\ before[q] = estadoFile
        /\ state[q].firstRun = Bool(FALSE)

\* the ids in the state file
PersistedIds(file) == Elems(loadState(file).seen_offers)

\* C19: with cycles one after another, no step removes an id from the seen
\* list of the state file, whatever the fetch of the cycle gave.
C19_SeenOnlyGrows ==
    [][PersistedIds(estadoFile) \subseteq PersistedIds(estadoFile')]_vars

\* C19 witness: a steady-state cycle whose fetch failed has ended, and the
\* state file holds the two ids it held when the cycle began.
C19_Witness ==
    \E p \in Procs :
        /\ pc[p] = "done"
        /\ resp[p].kind \in {"error", "timeout"}
        /\ ~Truthy(Loaded(p).firstRun)
        /\ Cardinality(PersistedIds(before[p])) = 2
        /\ PersistedIds(estadoFile) = PersistedIds(before[p])

\* listings in which offers without identifier appear
NoIdDocs == {DocOne, DocTwo, DocNoId, DocNoIdToo}

NoIdResponses ==
    {[kind |-> k, docs |-> <<>>] : k \in {"error", "timeout", "nodocs"}}
        \cup {[kind |-> "docs", docs |-> d] : d \in SeqsUpTo(NoIdDocs, MaxDocs)}

NextNoId ==
    \/ \E p \in Procs : Quiet /\ CheckOffersBegin(p)
    \/ \E p \in Procs, r \in NoIdResponses : GetOffersReturn(p, r)
    \/ \E p \in Procs, ok \in BOOLEAN : Deliver(p, ok)
    \/ \E p \in Procs : BroadcastReturn(p)
    \/ \E p \in Procs : CheckOffersEnd(p)
    \/ \E c \in Chats : OnStart(c)

SpecNoId == Init /\ [][NextNoId]_vars

\* a document has neither idoferta nor id
Identifierless(doc) == doc.idoferta = Undefined /\ doc.id = Undefined

\* C20: the id of a fetched offer is the document's idoferta, or else its
\* id, as a string, and the empty string when the document has neither; and
\* a steady-state cycle that loaded a seen list holding the empty string
\* broadcasts nothing for a document without identifier, so that over the
\* whole run at most one such document is ever broadcast.
C20_IdentifierlessShareEmptyId ==
    /\ \A p \in Procs :
           resp[p].kind = "docs" =>
               /\ Len(offers[p]) = Len(resp[p].docs)
               /\ \A k \in 1..Len(offers[p]) :
                      LET doc == resp[p].docs[k]
                      IN offers[p][k].id =
                             IF doc.idoferta # Undefined
                             THEN Str(ToStringJS(doc.idoferta))
                             ELSE IF doc.id # Undefined
                                  THEN Str(ToStringJS(doc.id))
                                  ELSE Str(<<>>)
    /\ \A p \in Procs :
           includes(Loaded(p).seen_offers, Str(<<>>)) =>
               \A k \in 1..Len(offers[p]) :
                   Identifierless(resp[p].docs[k]) =>
                       ~includes(sent[p], offers[p][k].id)
    /\ notified[<<>>] <= 1

\* C20 witness: one document without identifier has been broadcast; a later
\* cycle fetched two different documents without identifier and has ended
\* without a broadcast.
C20_Witness ==
    \E p \in Procs :
        /\ pc[p] = "done"
        /\ ~Truthy(Loaded(p).firstRun)
        /\ includes(Loaded(p).seen_offers, Str(<<>>))
        /\ notified[<<>>] = 1
        /\ resp[p].docs = <<DocNoId, DocNoIdToo>>
        /\ sent[p] = <<>>

\* ------------------------------------------------------------------------
\* The schedule of an offer: formatSchedule
\* ------------------------------------------------------------------------

\* const days
days == <<"lunes", "martes", "miercoles", "jueves", "viernes", "sabado">>

\* const dayNames
dayNames ==
    [lunes |-> <<"L", "u", "n", "e", "s">>,
     martes |-> <<"M", "a", "r", "t", "e", "s">>,
     miercoles |-> <<"M", "i", "eacute", "r", "c", "o", "l", "e", "s">>,
     jueves |-> <<"J", "u", "e", "v", "e", "s">>,
     viernes |-> <<"V", "i", "e", "r", "n", "e", "s">>,
     sabado |-> <<"S", "aacute", "b", "a", "d", "o">>]

\* the test with its second half left out: any truthy value counts
HasTimeTruthy(time) == Truthy(time)

\* `time && time.trim() !== ''` where trim does not throw
HasTime(time) == Truthy(time) /\ trim(time.s) # <<>>

\* time.trim is not a function: the value is truthy and not a string
TimeThrows(time) == Truthy(time) /\ time.t # "string"

\* `${dayNames[day]}: ${time.trim()}`
ScheduleLine(day, time) == dayNames[day] \o <<":", " ">> \o trim(time.s)

\* the array `schedule` after the for loop has run over days[1..k]
RECURSIVE ScheduleAfter(_, _)
ScheduleAfter(offer, k) ==
    IF k = 0 THEN <<>>
    ELSE IF HasTime(offer[days[k]])
         THEN Append(ScheduleAfter(offer, k - 1), ScheduleLine(days[k], offer[days[k]]))
         ELSE ScheduleAfter(offer, k - 1)

\* Array.prototype.join('\n')
RECURSIVE JoinLines(_)
JoinLines(lines) ==
    IF lines = <<>> THEN <<>>
    ELSE IF Len(lines) = 1 THEN lines[1]
    ELSE lines[1] \o <<"newline">> \o JoinLines(Tail(lines))

\* formatSchedule throws: the loop reaches a day whose value makes trim throw
formatScheduleThrows(offer) == \E k \in 1..Len(days) : TimeThrows(offer[days[k]])

\* formatSchedule where it returns
formatSchedule(offer) ==
    IF Len(ScheduleAfter(offer, Len(days))) > 0
    THEN JoinLines(ScheduleAfter(offer, Len(days)))
    ELSE NoEspecificado

\* what a weekday field of a document may hold: nothing, the empty string,
\* blanks, a time, a time with blanks around it, a number
Times ==
    {Undefined, Str(<<>>), Str(<<" ">>), Str(<<"9">>), Str(<<" ", "8", " ">>), Num(8)}

ScheduleInputs == [{days[k] : k \in 1..Len(days)} -> Times]

InitSchedule ==
    /\ MachineInit
    /\ estadoFile = MissingStateFile
    /\ fn = "none"
    /\ arg \in ScheduleInputs
    /\ ret = NoReturn

\* formatSchedule(arg)
CallFormatSchedule ==
    /\ fn = "none"
    /\ fn' = "formatSchedule"
    /\ ret' = [threw |-> formatScheduleThrows(arg),
               val |-> IF formatScheduleThrows(arg) THEN <<>> ELSE formatSchedule(arg),
               again |-> <<>>]
    /\ UNCHANGED <<estadoFile, usuariosFile, pc, state, offers, i, users, u, resp,
                   before, sent, attempts, notified, started, fetched, saved,
                   cycles, arg>>

NextSchedule == CallFormatSchedule

SpecSchedule == InitSchedule /\ [][NextSchedule]_vars

\* the positions in days whose value is a string that is not blank
GivenDays(offer) ==
    {k \in 1..Len(days) :
        /\ offer[days[k]].t = "string"
        /\ \E m \in 1..Len(offer[days[k]].s) : ~IsSpace(offer[days[k]].s[m])}

\* a time without the blanks around it (the times given have none inside)
Unblank(time) == SelectSeq(time, LAMBDA c : ~IsSpace(c))

\* the n-th of them, Monday first
NthGiven(offer, n) ==
    CHOOSE k \in GivenDays(offer) :
        Cardinality({m \in GivenDays(offer) : m <= k}) = n

\* the characters of a joined text, cut at the newlines
RECURSIVE SplitLines(_)
SplitLines(text) ==
    IF \A k \in 1..Len(text) : text[k] # "newline" THEN <<text>>
    ELSE LET cut == CHOOSE k \in 1..Len(text) :
                        text[k] = "newline" /\ \A m \in 1..(k - 1) : text[m] # "newline"
         IN <<SubSeq(text, 1, cut - 1)>> \o SplitLines(SubSeq(text, cut + 1, Len(text)))

\* C21: for weekday values that are strings or absent, formatSchedule
\* returns 'No especificado' exactly when no weekday has a non-blank value,
\* and otherwise one line 'DayName: value', the value trimmed, for exactly
\* the weekdays with a non-blank value, Monday to Saturday in that order,
\* joined by newlines; it throws only when a weekday value is truthy and not
\* a string.
C21_FormatSchedule ==
    fn = "formatSchedule" =>
        /\ ret.threw <=> \E k \in 1..Len(days) : arg[days[k]].t = "number"
        /\ ~ret.threw =>
               /\ ret.val = NoEspecificado <=> GivenDays(arg) = {}
               /\ GivenDays(arg) # {} =>
                      /\ Len(SplitLines(ret.val)) = Cardinality(GivenDays(arg))
                      /\ \A n \in 1..Cardinality(GivenDays(arg)) :
                             LET day == days[NthGiven(arg, n)]
                             IN SplitLines(ret.val)[n] =
                                    dayNames[day] \o <<":", " ">> \o Unblank(arg[day].s)

\* C21 witness: Tuesday, Friday and Saturday have a time, Monday is blank,
\* Wednesday absent, Thursday empty.
C21_Witness ==
    /\ fn = "formatSchedule"
    /\ arg.lunes = Str(<<" ">>)
    /\ arg.martes = Str(<<" ", "8", " ">>)
    /\ arg.miercoles = Undefined
    /\ arg.jueves = Str(<<>>)
    /\ arg.viernes = Str(<<"9">>)
    /\ arg.sabado = Str(<<" ", "8", " ">>)
    /\ ret.val = dayNames.martes \o <<":", " ", "8", "newline">>
                     \o dayNames.viernes \o <<":", " ", "9", "newline">>
                     \o dayNames.sabado \o <<":", " ", "8">>

\* ------------------------------------------------------------------------
\* The date formatters: formatDateArg, formatDateTimeArg
\* ------------------------------------------------------------------------

DigitValue(c) == CHOOSE k \in 0..9 : Digit(k) = c

\* the number a string of digits writes
RECURSIVE NumberOf(_)
NumberOf(str) ==
    IF str = <<>> THEN 0
    ELSE 10 * NumberOf(SubSeq(str, 1, Len(str) - 1)) + DigitValue(str[Len(str)])

AllDigits(str) == \A k \in 1..Len(str) : str[k] \in Digits

\* YYYY-MM-DD
IsoDate(str) ==
    /\ Len(str) = 10
    /\ str[5] = "-" /\ str[8] = "-"
    /\ AllDigits(SubSeq(str, 1, 4) \o SubSeq(str, 6, 7) \o SubSeq(str, 9, 10))
    /\ NumberOf(SubSeq(str, 6, 7)) \in 1..12
    /\ NumberOf(SubSeq(str, 9, 10)) \in 1..31

\* THH:mm:ss
IsoTime(str) ==
    /\ Len(str) = 9
    /\ str[1] = "T" /\ str[4] = ":" /\ str[7] = ":"
    /\ AllDigits(SubSeq(str, 2, 3) \o SubSeq(str, 5, 6) \o SubSeq(str, 8, 9))
    /\ NumberOf(SubSeq(str, 2, 3)) < 24
    /\ NumberOf(SubSeq(str, 5, 6)) < 60
    /\ NumberOf(SubSeq(str, 8, 9)) < 60

\* String.prototype.endsWith
endsWith(str, suffix) ==
    Len(str) >= Len(suffix)
        /\ SubSeq(str, Len(str) - Len(suffix) + 1, Len(str)) = suffix

\* String.prototype.slice(0, n) for n >= 0
sliceTo(str, n) == SubSeq(str, 1, IF n < Len(str) THEN n ELSE Len(str))

\* String.prototype.slice(0, -1)
dropLast(str) == SubSeq(str, 1, Len(str) - 1)

\* Date.parse does not give NaN.  Of the strings given to the formatters
\* here, it parses the date, the date-time and the date-time with Z; the
\* others are words, which it rejects.
ParsesAsDate(str) ==
    \/ IsoDate(str)
    \/ Len(str) = 19 /\ IsoDate(SubSeq(str, 1, 10)) /\ IsoTime(SubSeq(str, 11, 19))
    \/ Len(str) = 20 /\ IsoDate(SubSeq(str, 1, 10)) /\ IsoTime(SubSeq(str, 11, 19))
           /\ str[20] = "Z"

\* the time value of new Date(str): its calendar fields, and whether they
\* are UTC (date alone, or Z) or local time (date-time without Z)
DateOfString(str) ==
    [year |-> NumberOf(SubSeq(str, 1, 4)),
     month |-> NumberOf(SubSeq(str, 6, 7)),
     day |-> NumberOf(SubSeq(str, 9, 10)),
     hour |-> IF Len(str) = 10 THEN 0 ELSE NumberOf(SubSeq(str, 12, 13)),
     minute |-> IF Len(str) = 10 THEN 0 ELSE NumberOf(SubSeq(str, 15, 16)),
     utc |-> Len(str) # 19]

\* new Date(k) for a number of milliseconds within 1 January 1970
DateOfNumber(k) ==
    [year |-> 1970, month |-> 1, day |-> 1,
     hour |-> k \div 3600000, minute |-> (k \div 60000) % 60, utc |-> TRUE]

LeapYear(y) == (y % 4 = 0 /\ y % 100 # 0) \/ y % 400 = 0

DaysIn(y, m) ==
    IF m = 2 THEN (IF LeapYear(y) THEN 29 ELSE 28)
    ELSE IF m \in {4, 6, 9, 11} THEN 30 ELSE 31

\* the day before
DayBefore(date) ==
    IF date.day > 1 THEN [date EXCEPT !.day = @ - 1]
    ELSE IF date.month > 1
         THEN [date EXCEPT !.month = @ - 1, !.day = DaysIn(date.year, date.month - 1)]
         ELSE [date EXCEPT !.year = @ - 1, !.month = 12, !.day = 31]

\* the fields Intl.DateTimeFormat shows in a time zone `behind` hours west
\* of UTC
LocalFields(date, behind) ==
    IF ~date.utc THEN date
    ELSE IF date.hour >= behind THEN [date EXCEPT !.hour = @ - behind]
    ELSE [DayBefore(date) EXCEPT !.hour = date.hour + 24 - behind]

\* '2-digit'
TwoDigits(k) == <<Digit(k \div 10), Digit(k % 10)>>

\* new Intl.DateTimeFormat('es-AR').format(date): d/m/yyyy
FormatDate(date, behind) ==
    LET local == LocalFields(date, behind)
    IN NumberToString(local.day) \o <<"/">> \o NumberToString(local.month)
           \o <<"/">> \o NumberToString(local.year)

\* the same with year numeric and month, day, hour, minute 2-digit:
\* dd/mm/yyyy, hh:mm
FormatDateTime(date, behind) ==
    LET local == LocalFields(date, behind)
    IN TwoDigits(local.day) \o <<"/">> \o TwoDigits(local.month) \o <<"/">>
           \o NumberToString(local.year) \o <<",", " ">>
           \o TwoDigits(local.hour) \o <<":">> \o TwoDigits(local.minute)

\* isNaN(new Date(v)) is false
ValidDate(v) ==
    \/ v.t = "string" /\ ParsesAsDate(v.s)
    \/ v.t = "number"

\* new Date(v) where it is valid
DateOf(v) == IF v.t = "number" THEN DateOfNumber(v.n) ELSE DateOfString(v.s)

\* formatDateArg(dateStr); it has no statement that throws
formatDateArg(dateStr, behind) ==
    IF ~Truthy(dateStr) THEN Str(<<>>)
    ELSE IF ~ValidDate(dateStr) THEN dateStr
    ELSE Str(FormatDate(DateOf(dateStr), behind))

\* formatDateTimeArg throws: dateTimeStr.endsWith is not a function
formatDateTimeArgThrows(dateTimeStr) == Truthy(dateTimeStr) /\ dateTimeStr.t # "string"

\* the midnight of Argentina as the API writes it
T030000 == <<"T", "0", "3", ":", "0", "0", ":", "0", "0">>

\* formatDateTimeArg(dateTimeStr, omitSpecificTime) where it returns
formatDateTimeArg(dateTimeStr, omitSpecificTime, behind) ==
    IF ~Truthy(dateTimeStr) THEN Str(<<>>)
    ELSE LET dt == IF endsWith(dateTimeStr.s, <<"Z">>)
                   THEN dropLast(dateTimeStr.s) ELSE dateTimeStr.s
         IN IF omitSpecificTime /\ endsWith(dt, T030000)
            THEN Str(sliceTo(dt, 10))
            ELSE IF ~ValidDate(Str(dt)) THEN Str(dt)
            ELSE Str(FormatDateTime(DateOf(Str(dt)), behind))

\* the time zones of the process: UTC, and Argentina, 3 hours behind
Zones == {0, 3}

DayOne == <<"2", "0", "2", "4", "-", "0", "3", "-", "0", "5">>

DayTwo == <<"2", "0", "2", "4", "-", "1", "2", "-", "0", "1">>

T143000 == <<"T", "1", "4", ":", "3", "0", ":", "0", "0">>

\* what a date field of a document may hold: nothing, a number, an object,
\* words with and without a final Z, dates and date-times with and without Z
DateValues ==
    {Undefined, Null, Num(20240305), Object}
        \cup {Str(w) : w \in {<<>>, <<"Z">>, <<"a">>, <<"a", "Z">>, <<"a", "b">>,
                              <<"a", "b", "Z">>}}
        \cup {Str(d \o t \o z) : d \in {DayOne, DayTwo}, t \in {T030000, T143000},
                                 z \in {<<>>, <<"Z">>}}
        \cup {Str(DayOne), Str(DayTwo)}

DateInputs == [value : DateValues, omitSpecificTime : BOOLEAN]

InitDates ==
    /\ MachineInit
    /\ estadoFile = MissingStateFile
    /\ fn = "none"
    /\ arg \in DateInputs
    /\ ret = NoReturn

\* formatDateArg(arg.value)
CallFormatDateArg ==
    /\ fn = "none"
    /\ fn' = "formatDateArg"
    /\ \E behind \in Zones :
           ret' = [threw |-> FALSE, val |-> formatDateArg(arg.value, behind), again |-> <<>>]
    /\ UNCHANGED <<estadoFile, usuariosFile, pc, state, offers, i, users, u, resp,
                   before, sent, attempts, notified, started, fetched, saved,
                   cycles, arg>>

\* formatDateTimeArg(arg.value, arg.omitSpecificTime)
CallFormatDateTimeArg ==
    /\ fn = "none"
    /\ fn' = "formatDateTimeArg"
    /\ \E behind \in Zones :
           ret' = [threw |-> formatDateTimeArgThrows(arg.value),
                   val |-> IF formatDateTimeArgThrows(arg.value) THEN Undefined
                           ELSE formatDateTimeArg(arg.value, arg.omitSpecificTime, behind),
                   again |-> <<>>]
    /\ UNCHANGED <<estadoFile, usuariosFile, pc, state, offers, i, users, u, resp,
                   before, sent, attempts, notified, started, fetched, saved,
                   cycles, arg>>

NextDates == CallFormatDateArg \/ CallFormatDateTimeArg

SpecDates == InitDates /\ [][NextDates]_vars

\* C22: formatDateArg and formatDateTimeArg do not throw, and for a string
\* that does not parse as a date they return that string as it was given,
\* also when it ends in Z.
C22_FormattersDegrade ==
    fn \in {"formatDateArg", "formatDateTimeArg"} =>
        /\ ~ret.threw
        /\ (arg.value.t = "string" /\ ~ParsesAsDate(arg.value.s))
               => ret.val = arg.value

====
